---------------------------- MODULE Spec2Model ----------------------------
(***************************************************************************)
(* A model of blog.py: one click of "Generate Article" in main, which      *)
(* parses the URL (extract_video_id), fetches metadata                     *)
(* (get_video_details), resolves a transcript (get_video_transcript, with  *)
(* the transcribe_audio fallback and its retry loop) and runs the two      *)
(* language-model calls of generate_article_from_transcript.               *)
(*                                                                         *)
(* Python values: a str is a TLA+ string; an optional value is a sequence  *)
(* of length 0 (None) or 1 (the value).  External services (caption        *)
(* provider, audio provider, speech-to-text, metadata provider, language   *)
(* model) answer nondeterministically from small sets.                     *)
(***************************************************************************)
EXTENDS Integers, Sequences, FiniteSets, TLC

VARIABLES
    pc,              \* position of the request in main and its callees
    video_url,       \* main: text input "YouTube Video URL"
    title,           \* main: text input "Blog Post Title"
    style,           \* main: selectbox "Writing Style"
    video_id,        \* main: result of extract_video_id
    video_details,   \* main: result of get_video_details
    transcript,      \* main: result of get_video_transcript
    article_content, \* main: result of generate_article_from_transcript
    transcript_list, \* get_video_transcript: the listed caption tracks
    track,           \* get_video_transcript: the selected Transcript object
    segments,        \* get_video_transcript: the result of transcript.fetch()
    has_audio,       \* the video: does it have an audio-only stream
    attempt,         \* transcribe_audio: loop variable
    temp_file,       \* transcribe_audio: local temp_file (None while unbound)
    audio_text,      \* value returned by transcribe_audio
    errors,          \* history: the exception caught by each failed attempt
    summary,         \* generate_article_from_transcript: stage-1 reply
    now,             \* int(time.time()), relative to the click
    fs,              \* the working directory: file name -> size
    created,         \* history: every temp file name this request downloaded to
    calls,           \* history: external operations, in order
    sleeps,          \* history: arguments of time.sleep, in order
    llm,             \* history: language-model requests with their replies
    ui               \* history: messages rendered by streamlit

vars == <<pc, video_url, title, style, video_id, video_details, transcript,
          article_content, transcript_list, track, segments, has_audio, attempt,
          temp_file, audio_text, errors, summary, now, fs, created,
          calls, sleeps, llm, ui>>

-----------------------------------------------------------------------------
(* Bounds of the model *)

\* longest caption segment list returned by transcript.fetch()
MaxSegments == 2
\* seconds a download may take (advance of int(time.time()))
MaxDownloadSecs == 0

-----------------------------------------------------------------------------
(* Python values *)

None == <<>>
Some(x) == <<x>>
Val(o) == o[1]

\* bool(x) of an optional str: None and "" are falsy
Truthy(o) == o # None /\ Len(Val(o)) > 0

Char(s, i) == SubSeq(s, i, i)

\* 2 * n, a linear backoff
Pow2Linear(n) == 2 * n

\* 2 ** n
RECURSIVE Pow2(_)
Pow2(n) == IF n = 0 THEN 1 ELSE 2 * Pow2(n - 1)

\* ' '.join(parts)
RECURSIVE Join(_)
Join(parts) ==
    IF Len(parts) = 0 THEN ""
    ELSE IF Len(parts) = 1 THEN parts[1]
    ELSE parts[1] \o " " \o Join(Tail(parts))

\* s[:n]
Prefix(s, n) == IF Len(s) <= n THEN s ELSE SubSeq(s, 1, n)

-----------------------------------------------------------------------------
(* extract_video_id: re.search of three patterns, in order *)

\* the character class [\w-] (ASCII part)
IdChars ==
    {"a","b","c","d","e","f","g","h","i","j","k","l","m",
     "n","o","p","q","r","s","t","u","v","w","x","y","z",
     "A","B","C","D","E","F","G","H","I","J","K","L","M",
     "N","O","P","Q","R","S","T","U","V","W","X","Y","Z",
     "0","1","2","3","4","5","6","7","8","9","_","-"}

\* A prefix alternative: its text, and the positions holding an unescaped "."
\* (which matches any character but a newline).
patterns ==
    << << [text |-> "youtube.com/watch?v=", wild |-> {}],
          [text |-> "youtu.be/",            wild |-> {6}] >>,
       << [text |-> "youtube.com/embed/",   wild |-> {}] >>,
       << [text |-> "youtube.com/v/",       wild |-> {}] >> >>

\* alternative alt matches url at position i
MatchAlt(alt, url, i) ==
    /\ i + Len(alt.text) - 1 <= Len(url)
    /\ \A k \in 1..Len(alt.text) :
          IF k \in alt.wild
          THEN Char(url, i + k - 1) # "\n"
          ELSE Char(url, i + k - 1) = Char(alt.text, k)

\* index of the last character of the greedy run [\w-]+ starting at j
RECURSIVE RunEnd(_, _)
RunEnd(url, j) ==
    IF j + 1 <= Len(url) /\ Char(url, j + 1) \in IdChars
    THEN RunEnd(url, j + 1)
    ELSE j

\* the alternatives of pattern that match at i and are followed by >= 1 id char
AltsAt(pattern, url, i) ==
    { a \in 1..Len(pattern) :
        /\ MatchAlt(pattern[a], url, i)
        /\ i + Len(pattern[a].text) <= Len(url)
        /\ Char(url, i + Len(pattern[a].text)) \in IdChars }

Least(S) == CHOOSE x \in S : \A y \in S : x <= y

\* re.search(pattern, url): group(1) of the leftmost match, else None
re_search(pattern, url) ==
    LET starts == { i \in 1..Len(url) : AltsAt(pattern, url, i) # {} }
    IN  IF starts = {} THEN None
        ELSE LET i == Least(starts)
                 a == Least(AltsAt(pattern, url, i))
                 j == i + Len(pattern[a].text)
             IN  Some(SubSeq(url, j, RunEnd(url, j)))

RECURSIVE FirstMatch(_, _)
FirstMatch(p, url) ==
    IF p > Len(patterns) THEN None
    ELSE LET m == re_search(patterns[p], url)
         IN  IF m # None THEN m ELSE FirstMatch(p + 1, url)

extract_video_id(url) == FirstMatch(1, url)

-----------------------------------------------------------------------------
(* Inputs and the answers of the external services *)

URLS ==
    { "",
      "https://youtu.be/abc123",
      "https://www.youtube.com/watch?v=abc123",
      "https://www.youtube.com/watch?v=",
      "https://vimeo.com/76979871" }

Titles == {"", "My Title"}

Styles == {"detailed", "concise"}

\* list_transcripts: the language codes of the listed tracks, in order
\* (a video without any track makes the call raise TranscriptsDisabled)
Listings == { <<"en">>, <<"de">>, <<"de", "en">>, <<"de", "fr">> }

SegTexts == {"", " ", "hello"}

RECURSIVE SegLists(_)
SegLists(n) ==
    IF n = 0 THEN { <<>> }
    ELSE SegLists(n - 1) \cup
         { Append(l, t) : l \in { x \in SegLists(n - 1) : Len(x) = n - 1 },
                          t \in SegTexts }

\* result["text"] of whisper
SttTexts == {"", " ", " Hello world."}

MetadataItems ==
    { [title |-> "Video", description |-> "About"] }

SummaryReplies == {"S1", "S2"}

ArticleReplies == {"# My Title\nBody", "## Intro\nBody"}

-----------------------------------------------------------------------------
(* The working directory *)

Exists(files, name) == \E f \in files : f.name = name

Size(files, name) == (CHOOSE f \in files : f.name = name).size

\* open(name, "wb") and write size bytes
WriteFile(files, name, size) ==
    { f \in files : f.name # name } \cup { [name |-> name, size |-> size] }

\* os.remove(name)
RemoveFile(files, name) == { f \in files : f.name # name }

-----------------------------------------------------------------------------
Init ==
    /\ pc = "click"
    /\ video_url \in URLS
    /\ title \in Titles
    /\ style \in Styles
    /\ has_audio \in BOOLEAN
    /\ video_id = None
    /\ video_details = None
    /\ transcript = None
    /\ article_content = None
    /\ transcript_list = None
    /\ track = None
    /\ segments = None
    /\ attempt = 0
    /\ temp_file = None
    /\ audio_text = None
    /\ errors = <<>>
    /\ summary = None
    /\ now = 0
    /\ fs = {}
    /\ created = {}
    /\ calls = <<>>
    /\ sleeps = <<>>
    /\ llm = <<>>
    /\ ui = <<>>

-----------------------------------------------------------------------------
(* main, lines 244-259 and 284-285 *)

\* main_click without the return of line 251: the error is shown and the
\* request goes on
main_click_goes_on ==
    /\ pc = "click"
    /\ IF Len(video_url) > 0 /\ Len(title) > 0
       THEN /\ video_id' = extract_video_id(video_url)
            /\ pc' = "get_video_details"
            /\ ui' = IF Truthy(video_id') THEN ui
                     ELSE Append(ui, "error: Invalid YouTube URL")
       ELSE /\ pc' = "done"
            /\ ui' = Append(ui, "warning: enter both a YouTube URL and a title")
            /\ video_id' = video_id
    /\ UNCHANGED <<video_url, title, style, video_details, transcript,
                   article_content, transcript_list, track, segments,
                   has_audio, attempt, temp_file, audio_text, errors, summary,
                   now, fs, created, calls, sleeps, llm>>

\* "Generate Article" clicked: input check and extract_video_id
main_click ==
    /\ pc = "click"
    /\ IF Len(video_url) > 0 /\ Len(title) > 0
       THEN /\ video_id' = extract_video_id(video_url)
            /\ IF Truthy(video_id')
               THEN /\ pc' = "get_video_details"
                    /\ ui' = ui
               ELSE /\ pc' = "done"
                    /\ ui' = Append(ui, "error: Invalid YouTube URL")
       ELSE /\ pc' = "done"
            /\ ui' = Append(ui, "warning: enter both a YouTube URL and a title")
            /\ video_id' = video_id
    /\ UNCHANGED <<video_url, title, style, video_details, transcript,
                   article_content, transcript_list, track, segments, has_audio, attempt,
                   temp_file, audio_text, errors, summary, now, fs,
                   created, calls, sleeps, llm>>

-----------------------------------------------------------------------------
(* get_video_details *)

\* what the function returns for an answer of the metadata provider
DetailsResult(answer) ==
    IF answer.kind = "items" THEN Some(answer.item) ELSE None

\* get_video_details without its except clause: a provider error leaves main
get_video_details_raises ==
    /\ pc = "get_video_details"
    /\ \E answer \in {[kind |-> "error"], [kind |-> "empty"]} \cup
                     {[kind |-> "items", item |-> m] : m \in MetadataItems} :
          /\ video_details' = DetailsResult(answer)
          /\ pc' = IF answer.kind = "error" THEN "raised" ELSE "list_transcripts"
          /\ calls' = Append(calls, "videos.list")
    /\ UNCHANGED <<video_url, title, style, video_id, transcript,
                   article_content, transcript_list, track, segments,
                   has_audio, attempt, temp_file, audio_text, errors, summary,
                   now, fs, created, sleeps, llm, ui>>

get_video_details ==
    /\ pc = "get_video_details"
    /\ \E answer \in {[kind |-> "error"], [kind |-> "empty"]} \cup
                     {[kind |-> "items", item |-> m] : m \in MetadataItems} :
          /\ video_details' = DetailsResult(answer)
          /\ ui' = IF answer.kind = "error"
                   THEN Append(ui, "error: Error fetching video details")
                   ELSE ui
          /\ calls' = Append(calls, "videos.list")
    /\ pc' = "list_transcripts"
    /\ UNCHANGED <<video_url, title, style, video_id, transcript,
                   article_content, transcript_list, track, segments, has_audio, attempt,
                   temp_file, audio_text, errors, summary, now, fs,
                   created, sleeps, llm>>

-----------------------------------------------------------------------------
(* get_video_transcript: the caption path, lines 89-102 *)

\* transcript_list.find_transcript(codes): the first code that has a track,
\* None standing for the NoTranscriptFound exception
RECURSIVE find_transcript(_, _)
find_transcript(listing, codes) ==
    IF Len(codes) = 0 THEN None
    ELSE IF \E i \in 1..Len(listing) : listing[i] = Head(codes)
         THEN Some([language_code |-> Head(codes), translated |-> FALSE])
         ELSE find_transcript(listing, Tail(codes))

\* The language codes requested by the lookup in the inner except branch
\* (line 98).
FallbackCodes == <<"en">>

\* line 104-107: any exception of the caption path starts the audio fallback
CaptionPathFailed ==
    /\ ui' = Append(ui, "info: No transcript available. Attempting to transcribe audio...")
    /\ pc' = "transcribe_audio"

\* line 91
list_transcripts ==
    /\ pc = "list_transcripts"
    /\ calls' = Append(calls, "list_transcripts")
    /\ \/ /\ \E listing \in Listings : transcript_list' = Some(listing)
          /\ pc' = "find_transcript"
          /\ ui' = ui
       \/ /\ transcript_list' = transcript_list
          /\ CaptionPathFailed
    /\ UNCHANGED <<video_url, title, style, video_id, video_details,
                   transcript, article_content, track, segments, has_audio, attempt,
                   temp_file, audio_text, errors, summary, now, fs,
                   created, sleeps, llm>>

\* lines 94-99: the English lookup, and on NoTranscriptFound the lookup of
\* the except branch followed by translate('en')
select_transcript ==
    /\ pc = "find_transcript"
    /\ LET first == find_transcript(Val(transcript_list), <<"en">>)
           again == find_transcript(Val(transcript_list), FallbackCodes)
       IN  IF first # None
           THEN /\ track' = first
                /\ calls' = Append(calls, "find_transcript")
                /\ pc' = "fetch"
                /\ ui' = ui
           ELSE IF again # None
           THEN \/ /\ track' = Some([Val(again) EXCEPT !.translated = TRUE])
                   /\ calls' = calls \o <<"find_transcript", "find_transcript",
                                          "translate">>
                   /\ pc' = "fetch"
                   /\ ui' = ui
                \/ /\ track' = track
                   /\ calls' = calls \o <<"find_transcript", "find_transcript",
                                          "translate">>
                   /\ CaptionPathFailed
           ELSE /\ track' = track
                /\ calls' = calls \o <<"find_transcript", "find_transcript">>
                /\ CaptionPathFailed
    /\ UNCHANGED <<video_url, title, style, video_id, video_details,
                   transcript, article_content, transcript_list, segments,
                   has_audio, attempt, temp_file, audio_text, errors, summary,
                   now, fs, created, sleeps, llm>>

\* fetch_transcript without the return of line 102: control reaches the
\* fallback although the caption text was obtained
fetch_transcript_falls_through ==
    /\ pc = "fetch"
    /\ calls' = Append(calls, "fetch")
    /\ \E segs \in SegLists(MaxSegments) :
          /\ segments' = Some(segs)
          /\ transcript' = Some(Join(segs))
    /\ CaptionPathFailed
    /\ UNCHANGED <<video_url, title, style, video_id, video_details,
                   article_content, transcript_list, track, has_audio, attempt,
                   temp_file, audio_text, errors, summary, now, fs,
                   created, sleeps, llm>>

\* lines 101-102
fetch_transcript ==
    /\ pc = "fetch"
    /\ calls' = Append(calls, "fetch")
    /\ \/ /\ \E segs \in SegLists(MaxSegments) :
                /\ segments' = Some(segs)
                /\ transcript' = Some(Join(segs))
          /\ pc' = "check_transcript"
          /\ ui' = ui
       \/ /\ transcript' = transcript
          /\ segments' = segments
          /\ CaptionPathFailed
    /\ UNCHANGED <<video_url, title, style, video_id, video_details,
                   article_content, transcript_list, track, has_audio, attempt,
                   temp_file, audio_text, errors, summary, now, fs,
                   created, sleeps, llm>>

-----------------------------------------------------------------------------
(* transcribe_audio, lines 36-85 *)

max_retries == 3

\* line 56: f"temp_audio_{video_id}_{int(time.time())}.mp4"
TempName(id, t) == "temp_audio_" \o id \o "_" \o ToString(t) \o ".mp4"

\* lines 82-85: the finally clause
Finally(tf, files) ==
    IF tf # None /\ Exists(files, Val(tf))
    THEN RemoveFile(files, Val(tf))
    ELSE files

\* lines 79-85 and the return into get_video_transcript (line 107):
\* the outer handler reports the error and returns None
OuterExcept(err, tf, files) ==
    /\ ui' = Append(ui, "error: Error transcribing audio: " \o err)
    /\ audio_text' = None
    /\ fs' = Finally(tf, files)
    /\ pc' = "audio_returned"

\* the handler re-raising the first error it has seen, not the current one
InnerExceptFirstError(err, tf, files) ==
    /\ errors' = Append(errors, err)
    /\ IF attempt = max_retries - 1
       THEN OuterExcept(Head(errors'), tf, files)
       ELSE /\ pc' = "backoff"
            /\ fs' = files
            /\ UNCHANGED <<ui, audio_text>>

\* the handler with the last attempt tested as attempt == max_retries
InnerExceptOffByOne(err, tf, files) ==
    /\ errors' = Append(errors, err)
    /\ IF attempt = max_retries
       THEN OuterExcept(err, tf, files)
       ELSE /\ pc' = "backoff"
            /\ fs' = files
            /\ UNCHANGED <<ui, audio_text>>

\* lines 73-77: the handler of one attempt; tf and files are temp_file and
\* the directory as the failed attempt left them
InnerExcept(err, tf, files) ==
    /\ errors' = Append(errors, err)
    /\ IF attempt = max_retries - 1
       THEN OuterExcept(err, tf, files)
       ELSE /\ pc' = "backoff"
            /\ fs' = files
            /\ UNCHANGED <<ui, audio_text>>

\* lines 40-43: YouTube(video_url)
transcribe_audio_start ==
    /\ pc = "transcribe_audio"
    /\ calls' = Append(calls, "YouTube")
    /\ \/ /\ pc' = "streams"
          /\ UNCHANGED <<ui, audio_text, fs, errors>>
       \/ /\ errors' = errors
          /\ OuterExcept("YouTube", temp_file, fs)
    /\ attempt' = 0
    /\ UNCHANGED <<video_url, title, style, video_id, video_details,
                   transcript, article_content, transcript_list, track, segments,
                   has_audio, temp_file, summary, now, created, sleeps, llm>>

\* lines 50-56: resolve the audio streams and name the temporary file
resolve_stream ==
    /\ pc = "streams"
    /\ calls' = Append(calls, "streams")
    /\ \/ /\ has_audio
          /\ temp_file' = Some(TempName(Val(video_id), now))
          /\ pc' = "download"
          /\ UNCHANGED <<ui, audio_text, fs, errors>>
       \/ /\ ~has_audio
          /\ temp_file' = temp_file
          /\ InnerExcept("No audio stream available", temp_file, fs)
       \/ /\ temp_file' = temp_file
          /\ InnerExcept("streams", temp_file, fs)
    /\ UNCHANGED <<video_url, title, style, video_id, video_details,
                   transcript, article_content, transcript_list, track, segments,
                   has_audio, attempt, summary, now, created, sleeps, llm>>

\* what audio_stream.download can do to the directory: complete, leaving
\* no file, an empty file or a file with content, or raise (an error, the
\* timeout), leaving no file or a partial one
DownloadEffects ==
    { [raises |-> FALSE, writes |-> FALSE, size |-> 0],
      [raises |-> FALSE, writes |-> TRUE,  size |-> 0],
      [raises |-> FALSE, writes |-> TRUE,  size |-> 1],
      [raises |-> TRUE,  writes |-> FALSE, size |-> 0],
      [raises |-> TRUE,  writes |-> TRUE,  size |-> 1] }

\* download with the check of line 62 reduced to os.path.exists
download_no_size_check ==
    /\ pc = "download"
    /\ calls' = Append(calls, "download")
    /\ created' = created \cup {Val(temp_file)}
    /\ \E secs \in 0..MaxDownloadSecs : now' = now + secs
    /\ \E e \in DownloadEffects :
          LET name == Val(temp_file)
              files == IF e.writes THEN WriteFile(fs, name, e.size) ELSE fs
          IN  IF e.raises
              THEN InnerExcept("download", temp_file, files)
              ELSE IF ~Exists(files, name)
              THEN InnerExcept("Download failed or empty file", temp_file, files)
              ELSE /\ fs' = files
                   /\ pc' = "transcribe"
                   /\ UNCHANGED <<ui, audio_text, errors>>
    /\ UNCHANGED <<video_url, title, style, video_id, video_details,
                   transcript, article_content, transcript_list, track,
                   segments, has_audio, attempt, temp_file, summary, sleeps,
                   llm>>

\* lines 59-63: download with timeout, then the existence and size check
download ==
    /\ pc = "download"
    /\ calls' = Append(calls, "download")
    /\ created' = created \cup {Val(temp_file)}
    /\ \E secs \in 0..MaxDownloadSecs : now' = now + secs
    /\ \E e \in DownloadEffects :
          LET name == Val(temp_file)
              files == IF e.writes THEN WriteFile(fs, name, e.size) ELSE fs
          IN  IF e.raises
              THEN InnerExcept("download", temp_file, files)
              ELSE IF ~Exists(files, name) \/ Size(files, name) = 0
              THEN InnerExcept("Download failed or empty file", temp_file, files)
              ELSE /\ fs' = files
                   /\ pc' = "transcribe"
                   /\ UNCHANGED <<ui, audio_text, errors>>
    /\ UNCHANGED <<video_url, title, style, video_id, video_details,
                   transcript, article_content, transcript_list, track,
                   segments, has_audio, attempt, temp_file, summary, sleeps,
                   llm>>

\* transcribe treating an empty text as a failed attempt
transcribe_retries_empty ==
    /\ pc = "transcribe"
    /\ calls' = calls \o <<"load_model", "transcribe">>
    /\ \/ /\ \E text \in SttTexts \ {""} : audio_text' = Some(text)
          /\ fs' = Finally(temp_file, RemoveFile(fs, Val(temp_file)))
          /\ pc' = "audio_returned"
          /\ UNCHANGED <<ui, errors>>
       \/ InnerExcept("empty transcript", temp_file, fs)
       \/ InnerExcept("transcribe", temp_file, fs)
    /\ UNCHANGED <<video_url, title, style, video_id, video_details,
                   transcript, article_content, transcript_list, track,
                   segments, has_audio, attempt, temp_file, summary, now,
                   created, sleeps, llm>>

\* lines 66-71: whisper, then os.remove and return (the finally clause
\* finds the file gone)
transcribe ==
    /\ pc = "transcribe"
    /\ \/ /\ calls' = calls \o <<"load_model", "transcribe">>
          /\ \E text \in SttTexts : audio_text' = Some(text)
          /\ fs' = Finally(temp_file, RemoveFile(fs, Val(temp_file)))
          /\ pc' = "audio_returned"
          /\ UNCHANGED <<ui, errors>>
       \/ /\ calls' = calls \o <<"load_model", "transcribe">>
          /\ InnerExcept("transcribe", temp_file, fs)
    /\ UNCHANGED <<video_url, title, style, video_id, video_details,
                   transcript, article_content, transcript_list, track, segments,
                   has_audio, attempt, temp_file, summary, now, created,
                   sleeps, llm>>

\* lines 76-77: time.sleep(2 ** attempt); continue
backoff ==
    /\ pc = "backoff"
    /\ calls' = Append(calls, "sleep")
    /\ sleeps' = Append(sleeps, Pow2(attempt))
    /\ now' = now + Pow2(attempt)
    /\ attempt' = attempt + 1
    /\ pc' = "streams"
    /\ UNCHANGED <<video_url, title, style, video_id, video_details,
                   transcript, article_content, transcript_list, track, segments,
                   has_audio, temp_file, audio_text, errors, summary, fs,
                   created, llm, ui>>

-----------------------------------------------------------------------------
(* get_video_transcript, lines 107-117, and main, lines 257-259 *)

audio_returned ==
    /\ pc = "audio_returned"
    /\ transcript' = audio_text
    /\ ui' = IF ~Truthy(audio_text)
             THEN Append(ui, "error: Unable to process video")
             ELSE ui
    /\ pc' = "check_transcript"
    /\ UNCHANGED <<video_url, title, style, video_id, video_details,
                   article_content, transcript_list, track, segments, has_audio, attempt,
                   temp_file, audio_text, errors, summary, now, fs,
                   created, calls, sleeps, llm>>

\* a check against None alone
AcceptsNotNone(t) == t # None

\* line 258: if not transcript: return
Accepts(t) == Truthy(t)

check_transcript ==
    /\ pc = "check_transcript"
    /\ pc' = IF Accepts(transcript) THEN "summarize" ELSE "done"
    /\ UNCHANGED <<video_url, title, style, video_id, video_details,
                   transcript, article_content, transcript_list, track, segments,
                   has_audio, attempt, temp_file, audio_text, errors,
                   summary, now, fs, created, calls, sleeps, llm, ui>>

-----------------------------------------------------------------------------
(* generate_article_from_transcript, lines 138-216 *)

SYSTEM_INSTRUCTION_DETAILED ==
    "You are converting the video transcript into a detailed blog post in the speakers voice. 1. Use the exact title provided in the title area."

SYSTEM_INSTRUCTION_CONCISE ==
    "You are converting the video transcript into a concise blog post in the speakers voice. 1. Use the exact title provided in the title area."

SUMMARY_SYSTEM == "Summarize the key points from this video transcript and context."

\* transcript[:1500]
ExcerptLen == 1500

\* a dispatch that tests for "concise" and defaults to the detailed template
SystemInstructionFlipped(st) ==
    IF st = "concise" THEN SYSTEM_INSTRUCTION_CONCISE
    ELSE SYSTEM_INSTRUCTION_DETAILED

\* line 170
SystemInstruction(st) ==
    IF st = "detailed" THEN SYSTEM_INSTRUCTION_DETAILED
    ELSE SYSTEM_INSTRUCTION_CONCISE

\* lines 173-178
Context(details) ==
    IF details # None
    THEN "Video Title: " \o Val(details).title \o
         " Video Description: " \o Val(details).description
    ELSE ""

\* lines 180-182
SummaryPrompt(text, details) ==
    "First, summarize the key points from this transcript and context: " \o
    Context(details) \o " Transcript excerpt: " \o Prefix(text, ExcerptLen) \o
    "..."

\* a compose prompt that repeats the transcript where the summary belongs
ContentPromptNoSummary(ttl, text, details, st, sum) ==
    "Write a " \o (IF st = "detailed" THEN "detailed" ELSE "concise") \o
    " blog post with the title: '" \o ttl \o "'" \o
    " Context: " \o Context(details) \o
    " Summary of content: " \o text \o
    " Full transcript: " \o text \o "."

\* a compose prompt that names the video's title, not the caller's
ContentPromptVideoTitle(ttl, text, details, st, sum) ==
    "Write a " \o (IF st = "detailed" THEN "detailed" ELSE "concise") \o
    " blog post with the title: '" \o
    (IF details # None THEN Val(details).title ELSE "Untitled") \o "'" \o
    " Context: " \o Context(details) \o
    " Summary of content: " \o sum \o
    " Full transcript: " \o text \o
    " Convert this into a well-structured blog post. Make it " \o
    (IF st = "detailed" THEN "comprehensive and detailed"
     ELSE "concise and focused") \o "."

\* lines 196-206
ContentPrompt(ttl, text, details, st, sum) ==
    "Write a " \o (IF st = "detailed" THEN "detailed" ELSE "concise") \o
    " blog post with the title: '" \o ttl \o "'" \o
    " Context: " \o Context(details) \o
    " Summary of content: " \o sum \o
    " Full transcript: " \o text \o
    " Convert this into a well-structured blog post. Make it " \o
    (IF st = "detailed" THEN "comprehensive and detailed"
     ELSE "concise and focused") \o "."

Request(system, user, reply) ==
    [system |-> system, user |-> user, temperature |-> "0.1", reply |-> reply]

\* lines 185-193: the first call; an exception leaves main
summarize ==
    /\ pc = "summarize"
    /\ calls' = Append(calls, "chat.completions.create")
    /\ LET user == SummaryPrompt(Val(transcript), video_details)
       IN  \/ \E reply \in SummaryReplies :
                /\ llm' = Append(llm, Request(SUMMARY_SYSTEM, user, Some(reply)))
                /\ summary' = Some(reply)
                /\ pc' = "compose"
           \/ /\ llm' = Append(llm, Request(SUMMARY_SYSTEM, user, None))
              /\ summary' = summary
              /\ pc' = "raised"
    /\ UNCHANGED <<video_url, title, style, video_id, video_details,
                   transcript, article_content, transcript_list, track, segments,
                   has_audio, attempt, temp_file, audio_text, errors, now,
                   fs, created, sleeps, ui>>

\* what main shows for the reply of the second call (lines 216, 270-275)
Article(reply) == Some(reply)

\* a compose step that falls back to the summary when the second call fails
compose_shows_summary ==
    /\ pc = "compose"
    /\ calls' = Append(calls, "chat.completions.create")
    /\ LET user == ContentPrompt(title, Val(transcript), video_details, style,
                                 Val(summary))
       IN  \E reply \in {None} \cup { Some(r) : r \in ArticleReplies } :
              /\ llm' = Append(llm, Request(SystemInstruction(style), user, reply))
              /\ article_content' = IF reply = None THEN summary ELSE reply
              /\ ui' = ui \o <<"success: Article generated successfully!",
                               "markdown: " \o Val(article_content')>>
              /\ pc' = "done"
    /\ UNCHANGED <<video_url, title, style, video_id, video_details,
                   transcript, transcript_list, track, segments, has_audio,
                   attempt, temp_file, audio_text, errors, summary, now, fs,
                   created, sleeps>>

\* lines 208-216 and main, lines 262-283: the second call and the display
compose ==
    /\ pc = "compose"
    /\ calls' = Append(calls, "chat.completions.create")
    /\ LET user == ContentPrompt(title, Val(transcript), video_details, style,
                                 Val(summary))
       IN  \/ \E reply \in ArticleReplies :
                /\ llm' = Append(llm, Request(SystemInstruction(style), user,
                                              Some(reply)))
                /\ article_content' = Article(reply)
                /\ ui' = ui \o <<"success: Article generated successfully!",
                                 "markdown: " \o Val(article_content')>>
                /\ pc' = "done"
           \/ /\ llm' = Append(llm, Request(SystemInstruction(style), user, None))
              /\ article_content' = article_content
              /\ ui' = ui
              /\ pc' = "raised"
    /\ UNCHANGED <<video_url, title, style, video_id, video_details,
                   transcript, transcript_list, track, segments, has_audio, attempt,
                   temp_file, audio_text, errors, summary, now, fs,
                   created, sleeps>>

-----------------------------------------------------------------------------
Next ==
    \/ main_click
    \/ get_video_details
    \/ list_transcripts
    \/ select_transcript
    \/ fetch_transcript
    \/ transcribe_audio_start
    \/ resolve_stream
    \/ download
    \/ transcribe
    \/ backoff
    \/ audio_returned
    \/ check_transcript
    \/ summarize
    \/ compose

Spec == Init /\ [][Next]_vars

-----------------------------------------------------------------------------
(* generate_article_from_transcript called on its own, lines 166-216: any  *)
(* title, transcript, metadata and style value                             *)

GenTitles == {"My Title", "10 Tips: {a} 'b'"}

GenTranscripts == {" ", "hello", " Hello world."}

\* the parameter is a plain str: the two options of main and other values
GenStyles == {"detailed", "concise", "Detailed", ""}

InitGen ==
    /\ pc = "summarize"
    /\ video_url = ""
    /\ title \in GenTitles
    /\ style \in GenStyles
    /\ has_audio = FALSE
    /\ video_id = None
    /\ video_details \in {None} \cup { Some(m) : m \in MetadataItems }
    /\ transcript \in { Some(t) : t \in GenTranscripts }
    /\ article_content = None
    /\ transcript_list = None
    /\ track = None
    /\ segments = None
    /\ attempt = 0
    /\ temp_file = None
    /\ audio_text = None
    /\ errors = <<>>
    /\ summary = None
    /\ now = 0
    /\ fs = {}
    /\ created = {}
    /\ calls = <<>>
    /\ sleeps = <<>>
    /\ llm = <<>>
    /\ ui = <<>>

NextGen ==
    \/ summarize
    \/ compose

SpecGen == InitGen /\ [][NextGen]_vars

-----------------------------------------------------------------------------
(* extract_video_id called on its own, lines 22-34: URLs put together from *)
(* a scheme and host prefix, a path shape, an identifier and a suffix      *)

UrlPrefixes == {"", "https://", "https://www.", "http://m."}

\* the four shapes extract_video_id is written for
SupportedShapes ==
    {"youtube.com/watch?v=", "youtu.be/", "youtube.com/embed/", "youtube.com/v/"}

OtherShapes ==
    {"youtu-be/", "vimeo.com/", "youtube.com/playlist?list=",
     "youtube.com/channel/"}

Identifiers == {"", "abc123", "dQw4w9WgXcQ", "a-_Z9"}

UrlSuffixes == {"", "&t=10", "?si=x"}

ExtractInputs ==
    { pre \o sh \o id \o suf :
        pre \in UrlPrefixes, sh \in SupportedShapes \cup OtherShapes,
        id \in Identifiers, suf \in UrlSuffixes }

InitExtract ==
    /\ pc = "extract"
    /\ video_url \in ExtractInputs
    /\ title = ""
    /\ style = "detailed"
    /\ has_audio = FALSE
    /\ video_id = None
    /\ video_details = None
    /\ transcript = None
    /\ article_content = None
    /\ transcript_list = None
    /\ track = None
    /\ segments = None
    /\ attempt = 0
    /\ temp_file = None
    /\ audio_text = None
    /\ errors = <<>>
    /\ summary = None
    /\ now = 0
    /\ fs = {}
    /\ created = {}
    /\ calls = <<>>
    /\ sleeps = <<>>
    /\ llm = <<>>
    /\ ui = <<>>

\* video_id = extract_video_id(video_url)
apply_extract ==
    /\ pc = "extract"
    /\ video_id' = extract_video_id(video_url)
    /\ pc' = "extracted"
    /\ UNCHANGED <<video_url, title, style, video_details, transcript,
                   article_content, transcript_list, track, segments,
                   has_audio, attempt, temp_file, audio_text, errors, summary,
                   now, fs, created, calls, sleeps, llm, ui>>

NextExtract == apply_extract

SpecExtract == InitExtract /\ [][NextExtract]_vars

-----------------------------------------------------------------------------
(* transcribe_audio, lines 36-85, run by two requests at once: each        *)
(* request has its own locals (pc, video_id, attempt, temp_file, the       *)
(* result, the errors, its page), kept one per request; the working        *)
(* directory fs and the clock now (time.time()) are shared; the records    *)
(* calls, sleeps and errors of the single request are not kept here        *)

Requests == {1, 2}

ConcIds == {"abc123", "dQw4w9WgXcQ"}

MaxClock == 1

InitConc ==
    /\ pc = [r \in Requests |-> "transcribe_audio"]
    /\ video_id \in [Requests -> {Some(id) : id \in ConcIds}]
    /\ video_id[1] = Some("abc123")
    /\ has_audio \in [Requests -> BOOLEAN]
    /\ \A r1, r2 \in Requests :
          video_id[r1] = video_id[r2] => has_audio[r1] = has_audio[r2]
    /\ attempt = [r \in Requests |-> 0]
    /\ temp_file = [r \in Requests |-> None]
    /\ audio_text = [r \in Requests |-> None]
    /\ errors = <<>>
    /\ calls = <<>>
    /\ sleeps = <<>>
    /\ ui = [r \in Requests |-> <<>>]
    /\ now = 0
    /\ fs = {}
    /\ created = {}
    /\ video_url = ""
    /\ title = ""
    /\ style = "detailed"
    /\ video_details = None
    /\ transcript = None
    /\ article_content = None
    /\ transcript_list = None
    /\ track = None
    /\ segments = None
    /\ summary = None
    /\ llm = <<>>

\* lines 79-85 as run by request r
OuterExceptOf(r, err, tf, files) ==
    /\ ui' = [ui EXCEPT ![r] = Append(@, "error: Error transcribing audio: " \o err)]
    /\ audio_text' = [audio_text EXCEPT ![r] = None]
    /\ fs' = Finally(tf, files)
    /\ pc' = [pc EXCEPT ![r] = "audio_returned"]

\* lines 73-77 as run by request r
InnerExceptOf(r, err, tf, files) ==
    IF attempt[r] = max_retries - 1
    THEN OuterExceptOf(r, err, tf, files)
    ELSE /\ pc' = [pc EXCEPT ![r] = "backoff"]
         /\ fs' = files
         /\ UNCHANGED <<ui, audio_text>>

\* lines 40-43 as run by request r
transcribe_audio_start_of(r) ==
    /\ pc[r] = "transcribe_audio"
    /\ \/ /\ pc' = [pc EXCEPT ![r] = "streams"]
          /\ UNCHANGED <<ui, audio_text, fs>>
       \/ OuterExceptOf(r, "YouTube", temp_file[r], fs)
    /\ attempt' = [attempt EXCEPT ![r] = 0]
    /\ UNCHANGED <<calls, errors, video_url, title, style, video_id, video_details,
                   transcript, article_content, transcript_list, track, segments,
                   has_audio, temp_file, summary, now, created, sleeps, llm>>

\* lines 50-56 as run by request r
resolve_stream_of(r) ==
    /\ pc[r] = "streams"
    /\ \/ /\ has_audio[r]
          /\ temp_file' = [temp_file EXCEPT
                             ![r] = Some(TempName(Val(video_id[r]), now))]
          /\ pc' = [pc EXCEPT ![r] = "download"]
          /\ UNCHANGED <<ui, audio_text, fs>>
       \/ /\ ~has_audio[r]
          /\ temp_file' = temp_file
          /\ InnerExceptOf(r, "No audio stream available", temp_file[r], fs)
       \/ /\ temp_file' = temp_file
          /\ InnerExceptOf(r, "streams", temp_file[r], fs)
    /\ UNCHANGED <<calls, errors, video_url, title, style, video_id, video_details,
                   transcript, article_content, transcript_list, track, segments,
                   has_audio, attempt, summary, now, created, sleeps, llm>>

\* lines 59-63 as run by request r
download_of(r) ==
    /\ pc[r] = "download"
    /\ created' = created \cup {Val(temp_file[r])}
    /\ \E secs \in 0..MaxDownloadSecs : now' = now + secs
    /\ \E e \in DownloadEffects :
          LET name == Val(temp_file[r])
              files == IF e.writes THEN WriteFile(fs, name, e.size) ELSE fs
          IN  IF e.raises
              THEN InnerExceptOf(r, "download", temp_file[r], files)
              ELSE IF ~Exists(files, name) \/ Size(files, name) = 0
              THEN InnerExceptOf(r, "Download failed or empty file",
                                 temp_file[r], files)
              ELSE /\ fs' = files
                   /\ pc' = [pc EXCEPT ![r] = "transcribe"]
                   /\ UNCHANGED <<ui, audio_text>>
    /\ UNCHANGED <<calls, errors, video_url, title, style, video_id, video_details,
                   transcript, article_content, transcript_list, track,
                   segments, has_audio, attempt, temp_file, summary, sleeps,
                   llm>>

\* lines 66-71 as run by request r: model.transcribe raises when the file
\* is no longer there, and os.remove raises FileNotFoundError likewise
transcribe_of(r) ==
    /\ pc[r] = "transcribe"
    /\ \/ /\ Exists(fs, Val(temp_file[r]))
          /\ \E text \in SttTexts :
                audio_text' = [audio_text EXCEPT ![r] = Some(text)]
          /\ fs' = Finally(temp_file[r], RemoveFile(fs, Val(temp_file[r])))
          /\ pc' = [pc EXCEPT ![r] = "audio_returned"]
          /\ UNCHANGED ui
       \/ InnerExceptOf(r, "transcribe", temp_file[r], fs)
    /\ UNCHANGED <<calls, errors, video_url, title, style, video_id, video_details,
                   transcript, article_content, transcript_list, track, segments,
                   has_audio, attempt, temp_file, summary, now, created,
                   sleeps, llm>>

\* lines 76-77 as run by request r; the sleep is taken in one step, the
\* other request running before and after it
backoff_of(r) ==
    /\ pc[r] = "backoff"
    /\ now' = now + Pow2(attempt[r])
    /\ attempt' = [attempt EXCEPT ![r] = @ + 1]
    /\ pc' = [pc EXCEPT ![r] = "streams"]
    /\ UNCHANGED <<calls, errors, video_url, title, style, video_id, video_details,
                   transcript, article_content, transcript_list, track, segments,
                   has_audio, temp_file, audio_text, summary, fs,
                   created, sleeps, llm, ui>>

\* a second of wall-clock time passes (time.time(), line 56)
Tick ==
    /\ now < MaxClock
    /\ now' = now + 1
    /\ UNCHANGED <<pc, video_url, title, style, video_id, video_details,
                   transcript, article_content, transcript_list, track,
                   segments, has_audio, attempt, temp_file, audio_text,
                   errors, summary, fs, created, calls, sleeps, llm, ui>>

NextConc ==
    \/ Tick
    \/ \E r \in Requests :
          \/ transcribe_audio_start_of(r)
          \/ resolve_stream_of(r)
          \/ download_of(r)
          \/ transcribe_of(r)
          \/ backoff_of(r)

SpecConc == InitConc /\ [][NextConc]_vars

-----------------------------------------------------------------------------
(* Vocabulary of the properties *)

\* how often operation op was called so far
Count(op) == Cardinality({ i \in 1..Len(calls) : calls[i] = op })

\* sub occurs in s
Contains(s, sub) ==
    \E i \in 1..(Len(s) - Len(sub) + 1) : SubSeq(s, i, i + Len(sub) - 1) = sub

Whitespace == {" ", "\t", "\n", "\r"}

\* s is empty or whitespace only
IsBlank(s) == \A i \in 1..Len(s) : Char(s, i) \in Whitespace

\* the operations of the audio path
AudioOps == {"YouTube", "streams", "download", "load_model", "transcribe", "sleep"}

NoAudioOps == \A i \in 1..Len(calls) : calls[i] \notin AudioOps

\* positions inside transcribe_audio
AudioPcs == {"transcribe_audio", "streams", "download", "transcribe", "backoff"}

\* positions after get_video_transcript has returned to main
ResolvedPcs == {"check_transcript", "summarize", "compose", "done", "raised"}

\* positions after transcribe_audio has returned
AfterAudioPcs == {"audio_returned"} \cup ResolvedPcs

\* the request has ended, normally or by an uncaught exception
Ended == pc \in {"done", "raised"}

\* s begins with pre
StartsWith(s, pre) == Len(s) >= Len(pre) /\ SubSeq(s, 1, Len(pre)) = pre

\* the article was rendered
ArticleShown == \E i \in 1..Len(ui) : StartsWith(ui[i], "markdown: ")

-----------------------------------------------------------------------------
(* C1: whenever the caption path has succeeded (listing, lookup and fetch  *)
(* completed), the resolver returns the joined caption text and no         *)
(* operation of the audio path (stream resolution, download,               *)
(* speech-to-text, backoff wait) happens at any point of the request.      *)
C1_CaptionShortCircuits ==
    segments # None =>
        /\ NoAudioOps
        /\ pc \in ResolvedPcs
        /\ transcript = Some(Join(Val(segments)))
        /\ sleeps = <<>>
        /\ created = {}

C1_Witness ==
    /\ pc = "done"
    /\ segments = Some(<<"hello", "hello">>)
    /\ transcript = Some("hello hello")
    /\ article_content # None

(* C2: when the caption path is unavailable and an audio attempt has      *)
(* succeeded, the resolver returns the text of that attempt and, once      *)
(* transcribe_audio has returned, no temporary file created by any attempt *)
(* of the request (the successful one or an earlier failed one) exists.    *)
C2_NoTempFileAfterAudioSuccess ==
    (pc \in AfterAudioPcs /\ audio_text # None) =>
        /\ \A name \in created : ~Exists(fs, name)
        /\ pc \in ResolvedPcs => transcript = audio_text

-----------------------------------------------------------------------------
(* C3: the backoff waits are 1 s before attempt 2 and 2 s before attempt   *)
(* 3; every retry is directly preceded by a wait and every wait is         *)
(* directly followed by a retry (so none follows the third failure or a    *)
(* success); after three failed attempts the resolver returns a falsy      *)
(* transcript and no language-model call or article follows.               *)
C3_BackoffAndTerminalFailure ==
    /\ sleeps = SubSeq(<<1, 2>>, 1, Len(sleeps))
    /\ Count("sleep") = Len(sleeps)
    /\ pc = "backoff" => Len(errors) = Len(sleeps) + 1 /\ Len(errors) < 3
    /\ pc # "backoff" /\ pc \in AudioPcs => Len(sleeps) = Len(errors)
    /\ \A i \in 1..Len(calls) :
          /\ (calls[i] = "streams" /\ \E j \in 1..(i - 1) : calls[j] = "streams")
                => calls[i - 1] = "sleep"
          /\ calls[i] = "sleep"
                => IF i = Len(calls) THEN pc = "streams"
                   ELSE calls[i + 1] = "streams"
    /\ (pc \in AfterAudioPcs /\ Len(errors) = 3) =>
          /\ sleeps = <<1, 2>>
          /\ audio_text = None
          /\ pc \in ResolvedPcs => ~Truthy(transcript)
          /\ pc \in {"audio_returned", "check_transcript", "done"}
          /\ llm = <<>>
          /\ article_content = None

C3_Witness ==
    /\ pc = "done"
    /\ Len(errors) = 3
    /\ sleeps = <<1, 2>>
    /\ transcript = None
    /\ Count("download") = 3

-----------------------------------------------------------------------------
(* C4 as stated: whenever main accepts the transcript and passes it to     *)
(* generate_article_from_transcript, the text is neither empty nor         *)
(* whitespace-only.                                                        *)
C4_AcceptedTranscriptNotBlank ==
    (pc \in {"summarize", "compose"} \/ llm # <<>>) =>
        /\ transcript # None
        /\ ~IsBlank(Val(transcript))

(* C4 as amended: whenever main accepts the transcript and passes it to    *)
(* generate_article_from_transcript, the text is not None and not the      *)
(* empty string, on the caption path and on the audio path; None and ""    *)
(* never reach a language-model call.                                      *)
C4_AcceptedTranscriptNotEmpty ==
    /\ (pc \in {"summarize", "compose"} \/ llm # <<>>) =>
          /\ transcript # None
          /\ Len(Val(transcript)) > 0
    /\ (Ended /\ pc = "done" /\ ~Truthy(transcript)) =>
          llm = <<>> /\ article_content = None

C4_Witness ==
    /\ pc = "summarize"
    /\ audio_text = Some(" Hello world.")
    /\ transcript = audio_text

-----------------------------------------------------------------------------
(* C5: once a caption track has been selected from a listing, it is the    *)
(* English track if the listing has one, and otherwise a listed track of   *)
(* another language translated to English; a listing with at least one     *)
(* track never leads to the audio fallback through the track lookup.       *)
C5_TrackSelection ==
    (transcript_list # None /\ pc # "find_transcript") =>
        /\ track # None
        /\ LET listing == Val(transcript_list)
               hasEn == \E i \in 1..Len(listing) : listing[i] = "en"
           IN  IF hasEn
               THEN Val(track).language_code = "en" /\ ~Val(track).translated
               ELSE /\ \E i \in 1..Len(listing) :
                          listing[i] = Val(track).language_code
                    /\ Val(track).translated

-----------------------------------------------------------------------------
(* C6: when the video has no audio-only stream, the attempt that finds     *)
(* this out is the only one: the streams are resolved once, nothing is     *)
(* downloaded, no backoff wait follows and transcribe_audio reports the    *)
(* failure right away.                                                     *)
C6_NoAudioStreamNotRetried ==
    (errors # <<>> /\ errors[1] = "No audio stream available") =>
        /\ Len(errors) = 1
        /\ Count("streams") = 1
        /\ Count("download") = 0
        /\ sleeps = <<>>
        /\ pc \in AfterAudioPcs

-----------------------------------------------------------------------------
(* C7: a failed metadata fetch (provider error or empty result) leaves     *)
(* video_details absent and never ends the request: transcript resolution  *)
(* is still attempted, and when the transcript is accepted and both        *)
(* language-model calls answer, both calls were made without metadata      *)
(* context and the article is returned and shown.                          *)
MetadataFailed == Count("videos.list") = 1 /\ video_details = None

C7_MetadataFailureNotFatal ==
    /\ Count("videos.list") <= 1
    /\ (Count("videos.list") = 1 /\ pc # "list_transcripts")
          => Count("list_transcripts") = 1
    /\ (MetadataFailed /\ Ended /\ Accepts(transcript) /\
        \A i \in 1..Len(llm) : llm[i].reply # None) =>
          /\ pc = "done"
          /\ Len(llm) = 2
          /\ \A i \in 1..Len(llm) : ~Contains(llm[i].user, "Video Title: ")
          /\ article_content # None
          /\ ArticleShown

C7_Witness ==
    /\ pc = "done"
    /\ video_details = None
    /\ \E i \in 1..Len(ui) : ui[i] = "error: Error fetching video details"
    /\ ArticleShown

-----------------------------------------------------------------------------
(* C8: generate_article_from_transcript issues at most two language-model  *)
(* calls, first the summarize call and then the compose call; the compose  *)
(* call is issued only after the summarize call has answered and its       *)
(* prompt carries that answer; a completed call made exactly two calls and *)
(* the article returned is the answer of the compose call.                 *)
C8_TwoCallsSummarizeThenCompose ==
    /\ Len(llm) <= 2
    /\ Count("chat.completions.create") = Len(llm)
    /\ Len(llm) >= 1 => llm[1].system = SUMMARY_SYSTEM
    /\ Len(llm) = 2 =>
          /\ llm[1].reply # None
          /\ llm[2].system \in {SYSTEM_INSTRUCTION_DETAILED,
                                SYSTEM_INSTRUCTION_CONCISE}
          /\ Contains(llm[2].user,
                      "Summary of content: " \o Val(llm[1].reply) \o " Full")
    /\ pc = "compose" => Len(llm) = 1 /\ llm[1].reply # None
    /\ article_content # None =>
          /\ Len(llm) = 2
          /\ llm[2].reply = article_content

C8_Witness ==
    /\ pc = "done"
    /\ style = "concise"
    /\ video_details = None
    /\ Len(llm) = 2
    /\ llm[1].reply = Some("S2")
    /\ article_content = llm[2].reply

-----------------------------------------------------------------------------
(* C9: no partial output.  Without a video identifier or without an        *)
(* accepted transcript no language-model call is made; after a failed      *)
(* summarize call no compose call is made; after a failed call no article  *)
(* exists; an article is shown only when identifier parsing, transcript    *)
(* resolution, summarize and compose have all succeeded.                   *)
C9_NoPartialOutput ==
    /\ (pc # "click" /\ ~Truthy(video_id)) => llm = <<>> /\ calls = <<>>
    /\ (Ended /\ ~Accepts(transcript)) => llm = <<>>
    /\ (Len(llm) >= 1 /\ llm[1].reply = None) => Len(llm) = 1 /\ pc = "raised"
    /\ (\E i \in 1..Len(llm) : llm[i].reply = None) =>
          /\ article_content = None
          /\ ~ArticleShown
          /\ pc = "raised"
    /\ (ArticleShown \/ article_content # None) =>
          /\ Truthy(video_id)
          /\ Accepts(transcript)
          /\ Len(llm) = 2
          /\ llm[1].reply # None
          /\ llm[2].reply # None
          /\ pc = "done"

C9_Witness ==
    /\ pc = "raised"
    /\ Len(llm) = 2
    /\ llm[1].reply # None
    /\ llm[2].reply = None
    /\ ui = <<>>

-----------------------------------------------------------------------------
-----------------------------------------------------------------------------
(* C11: nothing outside the audio download-and-transcribe loop is issued   *)
(* twice in one request: the caption listing, the track lookup, the        *)
(* translation, the segment fetch, the entry into transcribe_audio, the    *)
(* metadata fetch, the summarize call and the compose call each happen at  *)
(* most once, so none of them is re-issued after a failure.                *)
SingleOps ==
    {"videos.list", "list_transcripts", "find_transcript", "translate",
     "fetch", "YouTube"}

C11_NothingElseIssuedTwice ==
    /\ \A op \in SingleOps : Count(op) <= 1
    /\ Cardinality({ i \in 1..Len(llm) : llm[i].system = SUMMARY_SYSTEM }) <= 1
    /\ Cardinality({ i \in 1..Len(llm) : llm[i].system # SUMMARY_SYSTEM }) <= 1

-----------------------------------------------------------------------------
(* C13 as stated: the article returned by                                  *)
(* generate_article_from_transcript contains the exact title the caller    *)
(* supplied, whatever text the language model returns.                     *)
C13_ArticleContainsTitle ==
    article_content # None => Contains(Val(article_content), title)

(* C13 as amended: the compose prompt sent to the model always contains    *)
(* the caller's title verbatim (in "with the title: '<title>'"), under a   *)
(* system instruction that asks for the exact title; the article returned  *)
(* is the reply of the compose call, unchanged.                            *)
C13_ComposePromptCarriesTitle ==
    /\ \A i \in 1..Len(llm) :
          llm[i].system # SUMMARY_SYSTEM =>
             /\ Contains(llm[i].user, "with the title: '" \o title \o "'")
             /\ Contains(llm[i].system, "Use the exact title provided")
    /\ article_content # None =>
          /\ Len(llm) = 2
          /\ llm[2].system # SUMMARY_SYSTEM
          /\ article_content = llm[2].reply

C13_Witness ==
    /\ pc = "done"
    /\ title = "10 Tips: {a} 'b'"
    /\ video_details # None
    /\ article_content = Some("## Intro\nBody")

-----------------------------------------------------------------------------
(* C19: the compose call gets the DETAILED instruction and framing         *)
(* ("detailed", "comprehensive and detailed") exactly when style is        *)
(* "detailed" and the CONCISE instruction and framing for every other      *)
(* style value; the two instructions differ, and the compose prompt of a   *)
(* style differs from the one the other template would give on the same    *)
(* title, transcript, metadata and summary; the summarize call (system     *)
(* message, prompt, temperature) does not depend on style.                 *)
C19_StyleDispatch ==
    /\ SYSTEM_INSTRUCTION_DETAILED # SYSTEM_INSTRUCTION_CONCISE
    /\ Len(llm) >= 1 =>
          /\ llm[1].system = SUMMARY_SYSTEM
          /\ llm[1].temperature = "0.1"
          /\ llm[1].user = SummaryPrompt(Val(transcript), video_details)
          /\ ~Contains(llm[1].user, "detailed")
          /\ ~Contains(llm[1].user, "concise")
    /\ Len(llm) = 2 =>
          /\ llm[2].temperature = "0.1"
          /\ IF style = "detailed"
             THEN /\ llm[2].system = SYSTEM_INSTRUCTION_DETAILED
                  /\ Contains(llm[2].user, "Write a detailed blog post")
                  /\ Contains(llm[2].user, "Make it comprehensive and detailed")
             ELSE /\ llm[2].system = SYSTEM_INSTRUCTION_CONCISE
                  /\ Contains(llm[2].user, "Write a concise blog post")
                  /\ Contains(llm[2].user, "Make it concise and focused")
          /\ \A other \in GenStyles :
                ((other = "detailed") # (style = "detailed")) =>
                    llm[2].user # ContentPrompt(title, Val(transcript),
                                                video_details, other,
                                                Val(summary))

C19_Witness ==
    /\ pc = "done"
    /\ style = "Detailed"
    /\ Len(llm) = 2
    /\ llm[2].system = SYSTEM_INSTRUCTION_CONCISE

-----------------------------------------------------------------------------
(* C15: at every backoff wait and at the start of every later attempt, no  *)
(* temporary file created by an earlier attempt of the request exists.     *)
C15_NoTempFileAcrossAttempts ==
    (pc = "backoff" \/ (pc = "streams" /\ attempt > 0)) =>
        \A name \in created : ~Exists(fs, name)

-----------------------------------------------------------------------------
(* Vocabulary of C16 *)

CountIn(seq, op) == Cardinality({ i \in 1..Len(seq) : seq[i] = op })

\* errors raised while resolving the streams, before any download
StreamErrors == {"No audio stream available", "streams"}

\* the attempts that failed before their download
FailedBeforeDownload ==
    Cardinality({ i \in 1..Len(errors) : errors[i] \in StreamErrors })

\* the audio path succeeded: download and speech-to-text completed
AudioSucceeded == pc \in AfterAudioPcs /\ audio_text # None

\* steps transcribe_audio has left at most, 0 outside of it
AudioRank ==
    IF pc = "transcribe_audio" THEN 4 * max_retries + 1
    ELSE IF pc = "streams" THEN 4 * (max_retries - attempt)
    ELSE IF pc = "download" THEN 4 * (max_retries - attempt) - 1
    ELSE IF pc = "transcribe" THEN 4 * (max_retries - attempt) - 2
    ELSE IF pc = "backoff" THEN 4 * (max_retries - attempt) - 3
    ELSE 0

(* C16 as stated, its last part: when the audio path succeeds on attempt k *)
(* it has performed exactly k download calls.                              *)
C16_ExactlyKDownloads ==
    (pc \in AfterAudioPcs /\ Truthy(audio_text)) =>
        Count("download") = attempt + 1

C16_Bounds ==
    /\ attempt \in 0..(max_retries - 1)
    /\ Count("streams") <= 3
    /\ Count("download") <= 3
    /\ Count("transcribe") <= 3
    /\ Count("sleep") <= 2
    /\ Count("streams") = Len(errors)
                          + (IF pc \in {"download", "transcribe"} THEN 1 ELSE 0)
                          + (IF AudioSucceeded THEN 1 ELSE 0)
    /\ pc \in AudioPcs => audio_text = None
    /\ AudioSucceeded =>
          /\ Count("streams") = attempt + 1
          /\ Count("download") = attempt + 1 - FailedBeforeDownload
          /\ Count("download") <= attempt + 1
          /\ attempt = 0 => Count("download") = 1

C16_Step ==
    /\ pc \in AudioPcs => AudioRank' < AudioRank /\ AudioRank' >= 0
    /\ pc \notin AudioPcs =>
          \A op \in AudioOps \ {"YouTube"} :
              CountIn(calls', op) = CountIn(calls, op)

(* C16 as amended: transcribe_audio terminates (every step inside it       *)
(* lowers a bounded count of remaining steps); it performs at most 3       *)
(* stream resolutions, 3 download calls, 3 speech-to-text calls and 2      *)
(* backoff waits; at most one attempt is in progress at any time; when the *)
(* audio path succeeds on attempt k it has performed at most k download    *)
(* calls, one for each attempt that got past stream resolution (exactly    *)
(* one when the first attempt succeeds), and none after the success.       *)
C16_BoundedSequentialLoop == []C16_Bounds /\ [][C16_Step]_vars

C16_Witness ==
    /\ pc = "done"
    /\ audio_text = Some(" Hello world.")
    /\ attempt = 2
    /\ errors = <<"streams", "transcribe">>
    /\ Count("download") = 2
    /\ article_content # None

-----------------------------------------------------------------------------
(* C17: an attempt whose download leaves no file or a zero-byte file is a  *)
(* failed attempt: speech-to-text runs only on an existing, non-empty      *)
(* file, so never for that attempt; the attempt counts toward the limit of *)
(* 3; it is followed by a backoff wait and a retry unless it was the third *)
(* attempt, after which transcribe_audio returns None.                     *)
EmptyDownload == "Download failed or empty file"

\* attempts that ended in the download or in the check after it
FailedInDownload ==
    Cardinality({ i \in 1..Len(errors) : errors[i] \in {EmptyDownload, "download"} })

C17_EmptyDownloadIsFailedAttempt ==
    /\ pc = "transcribe" =>
          /\ Exists(fs, Val(temp_file))
          /\ Size(fs, Val(temp_file)) > 0
    /\ Count("transcribe") + (IF pc = "transcribe" THEN 1 ELSE 0)
          = Count("download") - FailedInDownload
    /\ Len(errors) <= max_retries
    /\ \A i \in 1..Len(errors) :
          errors[i] = EmptyDownload =>
             /\ Count("download") >= 1
             /\ i < max_retries =>
                   \/ pc = "backoff" /\ i = Len(errors) /\ Len(sleeps) = i - 1
                   \/ Len(sleeps) >= i
             /\ i = max_retries =>
                   /\ pc \in AfterAudioPcs
                   /\ audio_text = None
                   /\ Len(sleeps) = max_retries - 1

C17_Witness ==
    /\ pc = "done"
    /\ errors = <<EmptyDownload>>
    /\ Count("download") = 2
    /\ Count("transcribe") = 1
    /\ audio_text = Some(" Hello world.")
    /\ Exists(fs, TempName("abc123", 0))
    /\ Size(fs, TempName("abc123", 0)) = 0

-----------------------------------------------------------------------------
(* C18: when all three attempts have failed, transcribe_audio reports      *)
(* exactly one error, and it carries the exception of the third attempt;   *)
(* the exceptions of attempts 1 and 2 are not reported.                    *)
TranscribeErrorPrefix == "error: Error transcribing audio: "

ReportedErrors ==
    { i \in 1..Len(ui) : StartsWith(ui[i], TranscribeErrorPrefix) }

C18_LastErrorReported ==
    /\ Cardinality(ReportedErrors) <= 1
    /\ (pc \in AudioPcs \/ AudioSucceeded) => ReportedErrors = {}
    /\ (pc \in AfterAudioPcs /\ Len(errors) = max_retries) =>
          /\ Cardinality(ReportedErrors) = 1
          /\ \A i \in ReportedErrors :
                ui[i] = TranscribeErrorPrefix \o errors[max_retries]
    /\ \A i \in ReportedErrors :
          \A k \in 1..Len(errors) :
              errors[k] # errors[Len(errors)] =>
                  ui[i] # TranscribeErrorPrefix \o errors[k]

C18_Witness ==
    /\ pc = "done"
    /\ errors = <<"transcribe", "download", EmptyDownload>>
    /\ \E i \in 1..Len(ui) : ui[i] = TranscribeErrorPrefix \o EmptyDownload

-----------------------------------------------------------------------------
(* C20: the first attempt whose download and speech-to-text complete       *)
(* without raising ends the retry loop, whatever the text.  With an empty  *)
(* text transcribe_audio returns "" at once: no further attempt and no     *)
(* backoff wait follow, the resolver shows the aggregated failure message  *)
(* and main ends the request without a language-model call.                *)
\* speech-to-text runs that returned a text
SttCompletions ==
    Count("transcribe")
      - Cardinality({ i \in 1..Len(errors) : errors[i] = "transcribe" })

C20_EmptyTextEndsLoop ==
    /\ SttCompletions = (IF AudioSucceeded THEN 1 ELSE 0)
    /\ (pc \in AfterAudioPcs /\ audio_text = Some("")) =>
          /\ calls[Len(calls)] = "transcribe"
          /\ Count("streams") = Len(errors) + 1
          /\ Len(sleeps) = Len(errors)
          /\ ReportedErrors = {}
          /\ pc \in {"audio_returned", "check_transcript", "done"}
          /\ llm = <<>>
          /\ article_content = None
          /\ pc \in ResolvedPcs =>
                /\ transcript = Some("")
                /\ ui[Len(ui)] = "error: Unable to process video"

C20_Witness ==
    /\ pc = "done"
    /\ audio_text = Some("")
    /\ errors = <<>>
    /\ Count("download") = 1
    /\ sleeps = <<>>
    /\ transcript = Some("")

-----------------------------------------------------------------------------
(* C14: for a URL made of a prefix, one of the four supported shapes       *)
(* (watch?v=, youtu.be/, embed/, v/), an identifier over [A-Za-z0-9_-] and *)
(* a suffix, extract_video_id returns exactly that identifier, whatever    *)
(* the shape; for every input that is not of these shapes (another path    *)
(* shape, or no identifier) it returns None.                               *)
C14_ExtractsExactlySupportedShapes ==
    pc = "extracted" =>
        \A pre \in UrlPrefixes, sh \in SupportedShapes \cup OtherShapes,
           id \in Identifiers, suf \in UrlSuffixes :
            video_url = pre \o sh \o id \o suf =>
                video_id = (IF sh \in SupportedShapes /\ id # ""
                            THEN Some(id) ELSE None)

-----------------------------------------------------------------------------
(* C12: when two requests run transcribe_audio at the same time, also for  *)
(* the same video id, the temporary file names they hold are distinct at   *)
(* every moment: two different requests that are both between naming their *)
(* file and releasing it (downloading into it or transcribing it) never    *)
(* hold the same name.                                                     *)
Holds(r) == pc[r] \in {"download", "transcribe"}

C12_TempNamesDistinct ==
    \A r1, r2 \in Requests :
        (r1 # r2 /\ Holds(r1) /\ Holds(r2)) => temp_file[r1] # temp_file[r2]

=============================================================================
